---- MODULE Spec2Model ----
(***************************************************************************)
(* Column-group resizing of the page builder                               *)
(* (content-type/column-group/resizing.ts, class ColumnGroupUtils).        *)
(*                                                                         *)
(* Numbers.  The code works on IEEE doubles that it keeps on 8 decimals    *)
(* with toFixed(8).  A number is modelled as a decimal with exactly 8      *)
(* fractional digits, [i |-> integer part (floor), f |-> 0 .. Scale-1],    *)
(* standing for i + f / Scale.  Two fields are needed because 100 * Scale  *)
(* does not fit TLC's 32-bit integers.                                     *)
(***************************************************************************)
EXTENDS Integers, Sequences, FiniteSets, TLC

\* ------------------------------------------------------------ bounds
\* largest number of columns in a row
MaxColumns == 3
\* longest resize history (per direction) a gesture may record
MaxHistory == 2
\* longest sequence of resizeColumn calls made on a row
MaxCalls == 2
\* pixels the preview draws a grid unit with
UnitPx == 10

\* grid sizes of the rows that are resized
GridSizes == {3, 4}
\* grid sizes of the rows a gesture drags a handle in
GestureGridSizes == {4, 6}
\* largest of the small grid sizes widths are snapped on
MaxGridSize == 12
\* grid sizes widths are snapped on: the small ones, and two whose grid
\* step 100 / gridSize is close to the tolerance 0.1
SnapGridSizes == (1..MaxGridSize) \cup {999, 1001}

\* ------------------------------------------------------------ numbers
\* 10^8: the 8 decimals of toFixed(8)
Scale == 100000000

Norm(i, f) == [i |-> i + (f \div Scale), f |-> f % Scale]

Num(i) == [i |-> i, f |-> 0]

Zero == Num(0)

Plus(a, b) == Norm(a.i + b.i, a.f + b.f)

Minus(a, b) == Norm(a.i - b.i, a.f - b.f)

Less(a, b) == a.i < b.i \/ (a.i = b.i /\ a.f < b.f)

\* the 0.1 of "percentage - 0.1" and "percentage + 0.1"
Tenth == [i |-> 0, f |-> Scale \div 10]

\* A string holding a number, possibly followed by a unit ("50%").
NumberString(n, unit) == [num |-> n, unit |-> unit]

\* Number.prototype.toString(): the digits of the number, no unit.
toString(n) == NumberString(n, "")

\* parseFloat: the leading number of the string; a trailing "%" is dropped.
parseFloat(s) == s.num

\* parseInt(s, 10): the integer part of the leading number.
parseInt(s) == s.num.i

\* ------------------------------------------------------------ state
VARIABLES
    gridSize,               \* columnGroup.dataStore.get().gridSize, a string
    children,               \* column.parent.children(): the stored width string of each column
    history,                \* the ResizeHistory of the running gesture
    resizeColumnInstance,   \* the column whose handle is dragged (0: no gesture)
    calls,                  \* the number of resizeColumn calls made so far
    groupPosition,          \* the GroupPositionCache: left and outerWidth of the group, in pixels
    wysiwyg,                \* the wysiwyg form element: its fields, listeners and pending callbacks
    last                    \* the last operation: its arguments, result and writes

vars == <<gridSize, children, history, resizeColumnInstance, calls, groupPosition, wysiwyg, last>>

\* ------------------------------------------------------------ WidthSnapper
getGridSize == parseInt(gridSize)

\* The first n decimals of r / g (0 <= r < g), and the remainder left.
RECURSIVE Decimals(_, _, _, _)
Decimals(r, g, n, acc) ==
    IF n = 0 THEN <<acc, r>>
    ELSE Decimals((r * 10) % g, g, n - 1, acc * 10 + ((r * 10) \div g))

\* parseFloat((n / g).toFixed(Math.round(n / g) !== n / g ? 8 : 0)):
\* n / g rounded to 8 decimals; a whole quotient is printed without decimals
\* and parses to the same number.
RoundedQuotient(n, g) ==
    LET d == Decimals(n % g, g, 8, 0)
    IN  Norm(n \div g, IF 2 * d[2] >= g THEN d[1] + 1 ELSE d[1])

\* the grid sizes of every specification below
AllGridSizes == GridSizes \cup GestureGridSizes \cup SnapGridSizes

\* parseFloat((100 / gridSize * i).toFixed(...)) of getAcceptedColumnWidth,
\* for every grid size g and every i of its loop, computed once
PercentageTable ==
    [g \in AllGridSizes |-> [i \in 1..g |-> RoundedQuotient(100 * i, g)]]

\* percentage - 0.1
LowerTable ==
    [g \in AllGridSizes |-> [i \in 1..g |-> Minus(PercentageTable[g][i], Tenth)]]

\* percentage + 0.1
UpperTable ==
    [g \in AllGridSizes |-> [i \in 1..g |-> Plus(PercentageTable[g][i], Tenth)]]

\* the percentage of i grid units
percentage(i) == PercentageTable[getGridSize][i]

\* the values of i, among from down to 1, whose percentage lies within 0.1
\* of the width: the test of the loop of getAcceptedColumnWidth
Matching(width, from) ==
    { i \in 1..from :
        /\ Less(LowerTable[getGridSize][i], parseFloat(width))
        /\ Less(parseFloat(width), UpperTable[getGridSize][i]) }

Largest(set) == CHOOSE m \in set : \A n \in set : n <= m

\* the loop of getAcceptedColumnWidth returning the fraction one grid unit
\* below the matching one
AcceptedFrom_OneUnitBelow(width, from) ==
    LET matching == Matching(width, from)
    IN  IF matching = {} \/ Largest(matching) = 1 THEN Zero
        ELSE percentage(Largest(matching) - 1)

\* the loop of getAcceptedColumnWidth running upwards: it returns the
\* smallest matching fraction
AcceptedFrom_SmallestMatch(width, from) ==
    LET matching == Matching(width, from)
    IN  IF matching = {} THEN Zero
        ELSE percentage(CHOOSE m \in matching : \A n \in matching : m <= n)

\* The loop of getAcceptedColumnWidth, for (i = from; i > 0; i--): it stops
\* at the first, that is the largest, i that matches; newWidth stays 0 when
\* none does.
AcceptedFrom(width, from) ==
    LET matching == Matching(width, from)
    IN  IF matching = {} THEN Zero ELSE percentage(Largest(matching))

getAcceptedColumnWidth(width) == AcceptedFrom(width, getGridSize)

\* getSmallestColumnWidth cutting 100 / gridSize down to whole percents
getSmallestColumnWidth_WholePercent ==
    getAcceptedColumnWidth(toString(Num(RoundedQuotient(100, getGridSize).i)))

getSmallestColumnWidth ==
    getAcceptedColumnWidth(toString(RoundedQuotient(100, getGridSize)))

getColumnWidth(column) == getAcceptedColumnWidth(children[column])

\* ------------------------------------------------------------ ResizeApplier
\* updateColumnWidth writing the width to every column of the row
updateColumnWidth_EveryColumn(row, column, width) ==
    [c \in DOMAIN row |-> NumberString(parseFloat(toString(width)), "%")]

\* updateColumnWidth(column, width): the row after the write.
updateColumnWidth(row, column, width) ==
    [row EXCEPT ![column] = NumberString(parseFloat(toString(width)), "%")]

\* resizeColumn without the floor on the compensating column's new width
resizeColumn_NoShrinkFloor(column, width, shrinkableColumn) ==
    LET current == getColumnWidth(column)
        difference == toString(Minus(parseFloat(toString(width)), current))
        currentShrinkable == getColumnWidth(shrinkableColumn)
        shrinkableSize ==
            getAcceptedColumnWidth(
                toString(Minus(currentShrinkable, parseFloat(difference))))
    IN  IF \/ current = parseFloat(toString(width))
           \/ Less(parseFloat(toString(width)), getSmallestColumnWidth)
        THEN <<>>
        ELSE IF shrinkableColumn # 0
             THEN IF currentShrinkable = parseFloat(toString(shrinkableSize))
                  THEN <<>>
                  ELSE << <<shrinkableColumn, shrinkableSize>>,
                          <<column, width>> >>
             ELSE << <<column, width>> >>

\* resizeColumn that updates the column whatever allowedToShrink says
resizeColumn_IgnoresAllowedToShrink(column, width, shrinkableColumn) ==
    LET current == getColumnWidth(column)
        difference == toString(Minus(parseFloat(toString(width)), current))
        currentShrinkable == getColumnWidth(shrinkableColumn)
        shrinkableSize ==
            getAcceptedColumnWidth(
                toString(Minus(currentShrinkable, parseFloat(difference))))
    IN  IF \/ current = parseFloat(toString(width))
           \/ Less(parseFloat(toString(width)), getSmallestColumnWidth)
        THEN <<>>
        ELSE IF shrinkableColumn # 0
             THEN IF \/ currentShrinkable = parseFloat(toString(shrinkableSize))
                     \/ Less(parseFloat(toString(shrinkableSize)),
                             getSmallestColumnWidth)
                  THEN << <<column, width>> >>
                  ELSE << <<shrinkableColumn, shrinkableSize>>,
                          <<column, width>> >>
             ELSE << <<column, width>> >>

\* resizeColumn whose early return only tests "current === width"
resizeColumn_NoTargetFloor(column, width, shrinkableColumn) ==
    LET current == getColumnWidth(column)
        difference == toString(Minus(parseFloat(toString(width)), current))
        currentShrinkable == getColumnWidth(shrinkableColumn)
        shrinkableSize ==
            getAcceptedColumnWidth(
                toString(Minus(currentShrinkable, parseFloat(difference))))
    IN  IF current = parseFloat(toString(width))
        THEN <<>>
        ELSE IF shrinkableColumn # 0
             THEN IF \/ currentShrinkable = parseFloat(toString(shrinkableSize))
                     \/ Less(parseFloat(toString(shrinkableSize)),
                             getSmallestColumnWidth)
                  THEN <<>>
                  ELSE << <<shrinkableColumn, shrinkableSize>>,
                          <<column, width>> >>
             ELSE << <<column, width>> >>

\* resizeColumn(column, width, shrinkableColumn): the calls of
\* updateColumnWidth it makes, in order, each as <<column, width>>.
\* shrinkableColumn = 0 stands for undefined/null.  difference is the string
\* of toFixed(8), never empty, hence always truthy; on numbers of 8 decimals
\* toFixed(8) keeps the difference as it is.
resizeColumn(column, width, shrinkableColumn) ==
    LET current == getColumnWidth(column)
        difference == toString(Minus(parseFloat(toString(width)), current))
        currentShrinkable == getColumnWidth(shrinkableColumn)
        shrinkableSize ==
            getAcceptedColumnWidth(
                toString(Minus(currentShrinkable, parseFloat(difference))))
    IN  IF \/ current = parseFloat(toString(width))
           \/ Less(parseFloat(toString(width)), getSmallestColumnWidth)
        THEN <<>>
        ELSE IF shrinkableColumn # 0
             THEN IF \/ currentShrinkable = parseFloat(toString(shrinkableSize))
                     \/ Less(parseFloat(toString(shrinkableSize)),
                             getSmallestColumnWidth)
                  THEN <<>>
                  ELSE << <<shrinkableColumn, shrinkableSize>>,
                          <<column, width>> >>
             ELSE << <<column, width>> >>

\* the row after the given calls of updateColumnWidth
RECURSIVE ApplyWrites(_, _)
ApplyWrites(row, writes) ==
    IF writes = <<>> THEN row
    ELSE ApplyWrites(updateColumnWidth(row, Head(writes)[1], Head(writes)[2]),
                     Tail(writes))

\* ------------------------------------------------------------ ShrinkCandidateFinder
\* Columns are named by their place in column.parent.children(), from 1;
\* 0 stands for undefined/null.  The JavaScript index of column c is c - 1.
parentChildren == [c \in 1..Len(children) |-> c]

getColumnIndexInGroup(column) == column - 1

\* Array.prototype.reverse()
RECURSIVE Reverse(_)
Reverse(array) ==
    IF array = <<>> THEN <<>> ELSE Append(Reverse(Tail(array)), Head(array))

\* Array.prototype.slice(start), start >= 0
Slice(array, start) == SubSeq(array, start + 1, Len(array))

\* Array.prototype.find over columns: the first column that can shrink
RECURSIVE FindShrinkable(_)
FindShrinkable(searchArray) ==
    IF searchArray = <<>> THEN 0
    ELSE IF Less(getSmallestColumnWidth, getColumnWidth(Head(searchArray)))
         THEN Head(searchArray)
         ELSE FindShrinkable(Tail(searchArray))

\* findShrinkableColumnForResize that does not reverse the columns for "left"
findShrinkableColumnForResize_NoReverse(column, direction) ==
    LET currentIndex == getColumnIndexInGroup(column)
        searchArray ==
            IF direction = "right"
            THEN Slice(parentChildren, currentIndex + 1)
            ELSE Slice(Slice(parentChildren, 0),
                       Len(parentChildren) - currentIndex)
    IN  FindShrinkable(searchArray)

findShrinkableColumnForResize(column, direction) ==
    LET currentIndex == getColumnIndexInGroup(column)
        searchArray ==
            IF direction = "right"
            THEN Slice(parentChildren, currentIndex + 1)
            ELSE Slice(Reverse(Slice(parentChildren, 0)),
                       Len(parentChildren) - currentIndex)
    IN  FindShrinkable(searchArray)

\* getAdjacentColumn(column, "+1") and getAdjacentColumn(column, "-1")
getAdjacentColumn(column, direction) ==
    LET currentIndex == getColumnIndexInGroup(column)
    IN  IF currentIndex + direction + 1 \in DOMAIN parentChildren
        THEN parentChildren[currentIndex + direction + 1]
        ELSE 0

\* ------------------------------------------------------------ geometry of the preview
\* The group draws a grid unit groupPosition.outerWidth / gridSize pixels
\* wide, a fraction of a pixel in general.  A position of the DOM is kept as a
\* whole number of gridSize-ths of a pixel; Px turns whole pixels into them.
Px(pixels) == pixels * getGridSize

\* The number of grid units a column is drawn with: the units of its snapped
\* width.
ColumnUnits(column) ==
    IF getColumnWidth(column) = Zero THEN 0
    ELSE CHOOSE i \in 1..getGridSize : percentage(i) = getColumnWidth(column)

RECURSIVE UnitsBefore(_)
UnitsBefore(column) ==
    IF column <= 1 THEN 0
    ELSE UnitsBefore(column - 1) + ColumnUnits(column - 1)

\* element.offset().left - margin-left of the column's preview (the margin
\* is 0): the columns fill the group from its left edge
resizeColumnLeft(column) ==
    Px(groupPosition.left) + UnitsBefore(column) * groupPosition.outerWidth

\* element.outerWidth(true) of the column's preview
resizeColumnWidth(column) == ColumnUnits(column) * groupPosition.outerWidth

resizeHandlePosition(column) == resizeColumnLeft(column) + resizeColumnWidth(column)

\* ------------------------------------------------------------ ResizeDecision
\* determineAdjustedColumn using the wrong branch of the history: the branch
\* of the direction the pointer moves in
determineAdjustedColumn_SameDirectionHistory(currentPos, column, hist) ==
    IF Px(currentPos) >= resizeHandlePosition(column)
    THEN IF Len(hist.right) > 0
         THEN [adjustedColumn |-> Reverse(hist.right)[1].adjustedColumn,
               modifyColumnInPair |-> hist.right[1].modifyColumnInPair,
               usedHistory |-> "right", history |-> hist]
         ELSE [adjustedColumn |-> findShrinkableColumnForResize(column, "right"),
               modifyColumnInPair |-> "left",
               usedHistory |-> "", history |-> hist]
    ELSE IF ~Less(getSmallestColumnWidth, getColumnWidth(column))
         THEN LET adjustedColumn == findShrinkableColumnForResize(column, "left")
              IN  [adjustedColumn |-> adjustedColumn,
                   modifyColumnInPair |->
                       IF adjustedColumn # 0 THEN "right" ELSE "left",
                   usedHistory |-> "", history |-> hist]
         ELSE IF Len(hist.left) > 0
              THEN [adjustedColumn |-> Reverse(hist.left)[1].adjustedColumn,
                    modifyColumnInPair |-> hist.left[1].modifyColumnInPair,
                    usedHistory |-> "left", history |-> hist]
              ELSE [adjustedColumn |-> getAdjacentColumn(column, 1),
                    modifyColumnInPair |-> "left",
                    usedHistory |-> "", history |-> hist]

\* determineAdjustedColumn calling reverse() once: the history it reuses is
\* left reversed
determineAdjustedColumn_ReverseOnce(currentPos, column, hist) ==
    IF Px(currentPos) >= resizeHandlePosition(column)
    THEN IF Len(hist.left) > 0
         THEN LET once == Reverse(hist.left)
                  twice == Reverse(once)
              IN  [adjustedColumn |-> once[1].adjustedColumn,
                   modifyColumnInPair |-> once[1].modifyColumnInPair,
                   usedHistory |-> "left",
                   history |-> [hist EXCEPT !.left = once]]
         ELSE [adjustedColumn |-> findShrinkableColumnForResize(column, "right"),
               modifyColumnInPair |-> "left",
               usedHistory |-> "", history |-> hist]
    ELSE IF ~Less(getSmallestColumnWidth, getColumnWidth(column))
         THEN LET adjustedColumn == findShrinkableColumnForResize(column, "left")
              IN  [adjustedColumn |-> adjustedColumn,
                   modifyColumnInPair |->
                       IF adjustedColumn # 0 THEN "right" ELSE "left",
                   usedHistory |-> "", history |-> hist]
         ELSE IF Len(hist.right) > 0
              THEN LET once == Reverse(hist.right)
                       twice == Reverse(once)
                   IN  [adjustedColumn |-> once[1].adjustedColumn,
                        modifyColumnInPair |-> once[1].modifyColumnInPair,
                        usedHistory |-> "right",
                        history |-> [hist EXCEPT !.right = once]]
              ELSE [adjustedColumn |-> getAdjacentColumn(column, 1),
                    modifyColumnInPair |-> "left",
                    usedHistory |-> "", history |-> hist]

\* determineAdjustedColumn looking at history.right before the width of the
\* column
determineAdjustedColumn_HistoryFirst(currentPos, column, hist) ==
    IF Px(currentPos) >= resizeHandlePosition(column)
    THEN IF Len(hist.left) > 0
         THEN LET once == Reverse(hist.left)
                  twice == Reverse(once)
              IN  [adjustedColumn |-> once[1].adjustedColumn,
                   modifyColumnInPair |-> twice[1].modifyColumnInPair,
                   usedHistory |-> "left",
                   history |-> [hist EXCEPT !.left = twice]]
         ELSE [adjustedColumn |-> findShrinkableColumnForResize(column, "right"),
               modifyColumnInPair |-> "left",
               usedHistory |-> "", history |-> hist]
    ELSE IF Len(hist.right) = 0 /\ ~Less(getSmallestColumnWidth, getColumnWidth(column))
         THEN LET adjustedColumn == findShrinkableColumnForResize(column, "left")
              IN  [adjustedColumn |-> adjustedColumn,
                   modifyColumnInPair |->
                       IF adjustedColumn # 0 THEN "right" ELSE "left",
                   usedHistory |-> "", history |-> hist]
         ELSE IF Len(hist.right) > 0
              THEN LET once == Reverse(hist.right)
                       twice == Reverse(once)
                   IN  [adjustedColumn |-> once[1].adjustedColumn,
                        modifyColumnInPair |-> twice[1].modifyColumnInPair,
                        usedHistory |-> "right",
                        history |-> [hist EXCEPT !.right = twice]]
              ELSE [adjustedColumn |-> getAdjacentColumn(column, 1),
                    modifyColumnInPair |-> "left",
                    usedHistory |-> "", history |-> hist]

\* determineAdjustedColumn taking a pointer on the handle for one left of it
determineAdjustedColumn_StrictlyRight(currentPos, column, hist) ==
    IF Px(currentPos) > resizeHandlePosition(column)
    THEN IF Len(hist.left) > 0
         THEN LET once == Reverse(hist.left)
                  twice == Reverse(once)
              IN  [adjustedColumn |-> once[1].adjustedColumn,
                   modifyColumnInPair |-> twice[1].modifyColumnInPair,
                   usedHistory |-> "left",
                   history |-> [hist EXCEPT !.left = twice]]
         ELSE [adjustedColumn |-> findShrinkableColumnForResize(column, "right"),
               modifyColumnInPair |-> "left",
               usedHistory |-> "", history |-> hist]
    ELSE IF ~Less(getSmallestColumnWidth, getColumnWidth(column))
         THEN LET adjustedColumn == findShrinkableColumnForResize(column, "left")
              IN  [adjustedColumn |-> adjustedColumn,
                   modifyColumnInPair |->
                       IF adjustedColumn # 0 THEN "right" ELSE "left",
                   usedHistory |-> "", history |-> hist]
         ELSE IF Len(hist.right) > 0
              THEN LET once == Reverse(hist.right)
                       twice == Reverse(once)
                   IN  [adjustedColumn |-> once[1].adjustedColumn,
                        modifyColumnInPair |-> twice[1].modifyColumnInPair,
                        usedHistory |-> "right",
                        history |-> [hist EXCEPT !.right = twice]]
              ELSE [adjustedColumn |-> getAdjacentColumn(column, 1),
                    modifyColumnInPair |-> "left",
                    usedHistory |-> "", history |-> hist]

\* determineAdjustedColumn(currentPos, column, history): the triple it
\* returns, and the history as the call leaves it.  usedHistory "" stands
\* for undefined.  reverse() reverses the array it is called on in place and
\* returns it: the first history.X.reverse()[0] reads the last record and
\* leaves the array reversed, the second one reverses it back and reads its
\* first record.
determineAdjustedColumn(currentPos, column, hist) ==
    IF Px(currentPos) >= resizeHandlePosition(column)
    THEN IF Len(hist.left) > 0
         THEN LET once == Reverse(hist.left)
                  twice == Reverse(once)
              IN  [adjustedColumn |-> once[1].adjustedColumn,
                   modifyColumnInPair |-> twice[1].modifyColumnInPair,
                   usedHistory |-> "left",
                   history |-> [hist EXCEPT !.left = twice]]
         ELSE [adjustedColumn |-> findShrinkableColumnForResize(column, "right"),
               modifyColumnInPair |-> "left",
               usedHistory |-> "", history |-> hist]
    ELSE IF ~Less(getSmallestColumnWidth, getColumnWidth(column))
         THEN LET adjustedColumn == findShrinkableColumnForResize(column, "left")
              IN  [adjustedColumn |-> adjustedColumn,
                   modifyColumnInPair |->
                       IF adjustedColumn # 0 THEN "right" ELSE "left",
                   usedHistory |-> "", history |-> hist]
         ELSE IF Len(hist.right) > 0
              THEN LET once == Reverse(hist.right)
                       twice == Reverse(once)
                   IN  [adjustedColumn |-> once[1].adjustedColumn,
                        modifyColumnInPair |-> twice[1].modifyColumnInPair,
                        usedHistory |-> "right",
                        history |-> [hist EXCEPT !.right = twice]]
              ELSE [adjustedColumn |-> getAdjacentColumn(column, 1),
                    modifyColumnInPair |-> "left",
                    usedHistory |-> "", history |-> hist]

\* ------------------------------------------------------------ rows and inputs
RECURSIVE SumUnits(_)
SumUnits(units) == IF units = <<>> THEN 0 ELSE Head(units) + SumUnits(Tail(units))

\* rows at rest: two columns or more (a resize handle lies between two
\* columns), every column a whole number of grid units, the units adding up
\* to the grid size
Rows ==
    { [c \in DOMAIN units |-> NumberString(percentage(units[c]), "%")] :
        units \in { u \in UNION { [1..n -> 1..getGridSize] : n \in 2..MaxColumns } :
                        SumUnits(u) = getGridSize } }

\* 0.05: half the tolerance of getAcceptedColumnWidth
Twentieth == [i |-> 0, f |-> Scale \div 20]

\* The widths resizeColumn is called with: every grid fraction; one grid
\* unit - 0.05 and + 0.05 (off the grid, inside the tolerance); two grid
\* units + 1 (beyond the tolerance of every grid fraction).
TargetWidths ==
    { percentage(k) : k \in 1..getGridSize }
    \cup { Minus(percentage(1), Twentieth), Plus(percentage(1), Twentieth),
           Plus(percentage(2), Num(1)) }

NoHistory == [left |-> <<>>, right |-> <<>>]

\* a group drawn from pixel 0 with UnitPx pixels per grid unit
WholePixelGroup(g) == [left |-> 0, outerWidth |-> UnitPx * g]

None == [op |-> "none"]

\* no wysiwyg form element on the page
NoElement == [element |-> "none"]

\* ------------------------------------------------------------ Spec: resizeColumn
Init ==
    /\ \E g \in GridSizes : gridSize = toString(Num(g))
    /\ children \in Rows
    /\ history = NoHistory
    /\ resizeColumnInstance = 0
    /\ calls = 0
    /\ groupPosition = WholePixelGroup(getGridSize)
    /\ wysiwyg = NoElement
    /\ last = None

\* a call resizeColumn(column, width, shrinkableColumn)
ResizeColumn(column, width, shrinkableColumn) ==
    LET writes == resizeColumn(column, width, shrinkableColumn)
    IN  /\ calls < MaxCalls
        /\ calls' = calls + 1
        /\ children' = ApplyWrites(children, writes)
        /\ last' = [op |-> "resizeColumn", column |-> column, width |-> width,
                    shrinkableColumn |-> shrinkableColumn,
                    before |-> children, writes |-> writes]
        /\ UNCHANGED <<gridSize, history, resizeColumnInstance, groupPosition, wysiwyg>>

Next ==
    \E column \in DOMAIN children, width \in TargetWidths,
       shrinkableColumn \in 0..Len(children) :
        ResizeColumn(column, width, shrinkableColumn)

Spec == Init /\ [][Next]_vars

\* ------------------------------------------------------------ claims on resizeColumn
\* 1e-6, the tolerance of the row sum
Millionth == [i |-> 0, f |-> Scale \div 1000000]

RECURSIVE RowSum(_)
RowSum(row) ==
    IF row = <<>> THEN Zero ELSE Plus(parseFloat(Head(row)), RowSum(Tail(row)))

SumIs100(row) ==
    /\ ~Less(RowSum(row), Minus(Num(100), Millionth))
    /\ ~Less(Plus(Num(100), Millionth), RowSum(row))

IsGridFraction(n) == \E i \in 1..getGridSize : n = percentage(i)

IsGridRow(row) ==
    /\ \A c \in DOMAIN row : IsGridFraction(parseFloat(row[c]))
    /\ SumIs100(row)

Resized == last.op = "resizeColumn"

\* the snapped width of a column of a given row
SnappedWidth(row, column) == getAcceptedColumnWidth(row[column])

\* the test of the early return of the last call, on the row it was made on
TargetSameOrTooSmall ==
    \/ parseFloat(toString(last.width)) = SnappedWidth(last.before, last.column)
    \/ Less(parseFloat(toString(last.width)), getSmallestColumnWidth)

\* the compensating column's snapped new width of the last call equals its
\* current width or is below the grid minimum
CompensatingRejected ==
    LET currentShrinkable == SnappedWidth(last.before, last.shrinkableColumn)
        difference == Minus(last.width, SnappedWidth(last.before, last.column))
        shrinkableSize ==
            getAcceptedColumnWidth(toString(Minus(currentShrinkable, difference)))
    IN  \/ shrinkableSize = currentShrinkable
        \/ Less(shrinkableSize, getSmallestColumnWidth)

\* C1: from a row of grid fractions summing to 100, every resizeColumn call
\* that changes a stored width leaves the widths of the row summing to 100
\* (within 1e-6).
C1_SumStays100 ==
    (Resized /\ IsGridRow(last.before) /\ children # last.before)
        => SumIs100(children)

\* C2: after any sequence of resizeColumn calls on a row whose widths were
\* all at least getSmallestColumnWidth(), no stored width is below
\* getSmallestColumnWidth().
C2_NoWidthBelowSmallest ==
    \A c \in DOMAIN children :
        ~Less(parseFloat(children[c]), getSmallestColumnWidth)

\* C2 witness: the second call of a sequence has shrunk its compensating
\* column down to exactly the smallest width.
C2_Witness ==
    /\ Resized
    /\ calls = MaxCalls
    /\ Len(last.writes) = 2
    /\ last.writes[1][2] = getSmallestColumnWidth
    /\ Less(getSmallestColumnWidth,
            SnappedWidth(last.before, last.shrinkableColumn))

\* C3: a resizeColumn call with a compensating column writes the
\* compensating column and the target column, or nothing; it writes nothing
\* when the compensating column's snapped new width equals its current width
\* or is below the grid minimum.
C3_BothOrNeither ==
    (Resized /\ last.shrinkableColumn # 0) =>
        /\ \/ last.writes = <<>>
           \/ /\ Len(last.writes) = 2
              /\ last.writes[1][1] = last.shrinkableColumn
              /\ last.writes[2][1] = last.column
        /\ CompensatingRejected =>
              (last.writes = <<>> /\ children = last.before)

\* C3 witness: a call that passed the early return and was given up because
\* of its compensating column.
C3_Witness ==
    /\ Resized
    /\ last.shrinkableColumn # 0
    /\ last.shrinkableColumn # last.column
    /\ ~TargetSameOrTooSmall
    /\ CompensatingRejected
    /\ children = last.before

\* C4: resizeColumn makes no call of updateColumnWidth when the target width
\* equals the column's current snapped width or is below the grid minimum,
\* whatever the compensating column.
C4_NoUpdateWhenSameOrTooSmall ==
    (Resized /\ TargetSameOrTooSmall) =>
        (last.writes = <<>> /\ children = last.before)

\* C4 witness: a call with a compensating column that could have been shrunk,
\* for a target below the grid minimum.
C4_Witness ==
    /\ Resized
    /\ Less(parseFloat(toString(last.width)), getSmallestColumnWidth)
    /\ last.shrinkableColumn # 0
    /\ last.shrinkableColumn # last.column
    /\ Less(getSmallestColumnWidth,
            SnappedWidth(last.before, last.shrinkableColumn))
    /\ last.writes = <<>>

\* C5: a resizeColumn call without a compensating column changes no width.
C5_NoDonorNoChange ==
    (Resized /\ last.shrinkableColumn = 0) => children = last.before

\* C6: a resizeColumn call whose target width snaps to no grid fraction
\* changes no width.
C6_SnapFailureSkipsUpdate ==
    (Resized /\ getAcceptedColumnWidth(toString(last.width)) = Zero)
        => children = last.before

\* C7: every width resizeColumn stores is a grid fraction.
C7_StoredWidthsSnapped ==
    Resized =>
        \A k \in DOMAIN last.writes :
            IsGridFraction(parseFloat(children[last.writes[k][1]]))

\* ------------------------------------------------------------ SpecGesture: a drag of a resize handle
\* The gesture handler is not part of the sources: it is written from the
\* specification (sections 2, 3, 4.5 and 7).  A gesture starts with a fresh
\* history; each pointer frame takes the decision of
\* determineAdjustedColumn, appends it to the history of the frame's
\* direction, and, when a donor was found and the pointer reached a grid
\* position, calls resizeColumn; the end of the gesture drops the history.
InitGesture ==
    /\ \E g \in GestureGridSizes : gridSize = toString(Num(g))
    /\ children \in Rows
    /\ history = NoHistory
    /\ resizeColumnInstance = 0
    /\ calls = 0
    /\ groupPosition = WholePixelGroup(getGridSize)
    /\ wysiwyg = NoElement
    /\ last = None

\* pointer down on the handle right of a column
StartGesture(column) ==
    /\ resizeColumnInstance = 0
    /\ getAdjacentColumn(column, 1) # 0
    /\ resizeColumnInstance' = column
    /\ history' = NoHistory
    /\ last' = [op |-> "start", column |-> column]
    /\ UNCHANGED <<gridSize, children, calls, groupPosition, wysiwyg>>

\* what the next frame remembers of the last operation
Previous ==
    IF last.op = "frame"
    THEN [op |-> "frame", direction |-> last.direction,
          adjustedColumn |-> last.adjustedColumn,
          quiet |-> (last.writes = <<>>)]
    ELSE None

\* A pointer frame at currentPos; units is the grid position the pointer
\* reached (0: none), that is the width 100 / gridSize * units asked for the
\* column of the pair that is modified.
Frame(currentPos, units) ==
    /\ resizeColumnInstance # 0
    /\ \E column \in {resizeColumnInstance},
          direction \in {IF Px(currentPos) >= resizeHandlePosition(resizeColumnInstance)
                         THEN "right" ELSE "left"} :
        /\ Len(history[direction]) < MaxHistory
        /\ \E decision \in {determineAdjustedColumn(currentPos, column, history)} :
            \E writes \in
                  {IF decision.adjustedColumn # 0 /\ units # 0
                   THEN resizeColumn(
                            IF decision.modifyColumnInPair = "right"
                            THEN getAdjacentColumn(column, 1)
                            ELSE column,
                            percentage(units), decision.adjustedColumn)
                   ELSE <<>>} :
                /\ history' =
                       [decision.history EXCEPT
                           ![direction] =
                               Append(@, [adjustedColumn |-> decision.adjustedColumn,
                                          modifyColumnInPair |->
                                              decision.modifyColumnInPair])]
                /\ children' = ApplyWrites(children, writes)
                /\ last' = [op |-> "frame", column |-> column,
                            direction |-> direction,
                            atSmallest |->
                                ~Less(getSmallestColumnWidth, getColumnWidth(column)),
                            history |-> history,
                            adjustedColumn |-> decision.adjustedColumn,
                            modifyColumnInPair |-> decision.modifyColumnInPair,
                            usedHistory |-> decision.usedHistory,
                            writes |-> writes,
                            previous |-> Previous]
    /\ UNCHANGED <<gridSize, resizeColumnInstance, calls, groupPosition, wysiwyg>>

\* pointer up
EndGesture ==
    /\ resizeColumnInstance # 0
    /\ resizeColumnInstance' = 0
    /\ history' = NoHistory
    /\ last' = [op |-> "end"]
    /\ UNCHANGED <<gridSize, children, calls, groupPosition, wysiwyg>>

NextGesture ==
    \/ \E column \in DOMAIN children : StartGesture(column)
    \/ /\ resizeColumnInstance # 0
       /\ \E handle \in {resizeHandlePosition(resizeColumnInstance) \div getGridSize} :
             \E delta \in {-1, 0, 1}, units \in 0..getGridSize :
                 Frame(handle + delta, units)
    \/ EndGesture

SpecGesture == InitGesture /\ [][NextGesture]_vars

\* ------------------------------------------------------------ claims on determineAdjustedColumn
Framed == last.op = "frame"

\* the most recently appended record of the history the last frame used
UsedRecord ==
    LET used == last.history[last.usedHistory] IN used[Len(used)]

\* C8: when determineAdjustedColumn reuses history, the adjusted column and
\* the pair side it returns are those of the most recently appended record
\* of the history it used.
C8_ReusesLastRecord ==
    (Framed /\ last.usedHistory # "") =>
        /\ last.adjustedColumn = UsedRecord.adjustedColumn
        /\ last.modifyColumnInPair = UsedRecord.modifyColumnInPair

\* the last frame reversed the direction of the frame before it, and no
\* width changed between the two decisions
ReversedQuietly ==
    /\ Framed
    /\ last.previous.op = "frame"
    /\ last.previous.quiet
    /\ last.previous.direction # last.direction

SnapSteps ==
    IF getGridSize <= MaxGridSize THEN 1..getGridSize
    ELSE {1, 2, getGridSize \div 2, getGridSize - 1, getGridSize}

\* The raw widths: 0; every grid fraction of SnapSteps; the fraction -0.05
\* and +0.05 (inside the tolerance), -0.1 and +0.1 (on its edge), +1.
RawWidths ==
    { w \in {Zero}
            \cup { Plus(percentage(k), off) :
                     k \in SnapSteps, off \in {Zero, Twentieth, Tenth, Num(1)} }
            \cup { Minus(percentage(k), off) :
                     k \in SnapSteps, off \in {Twentieth, Tenth} } :
        ~Less(w, Zero) }

InitSnap ==
    /\ \E g \in SnapGridSizes : gridSize = toString(Num(g))
    /\ children = <<>>
    /\ history = NoHistory
    /\ resizeColumnInstance = 0
    /\ calls = 0
    /\ groupPosition = WholePixelGroup(getGridSize)
    /\ wysiwyg = NoElement
    /\ last = None

\* a call getAcceptedColumnWidth(width) on a raw width
Snap(width) ==
    /\ last = None
    /\ last' = [op |-> "getAcceptedColumnWidth", raw |-> width,
                width |-> toString(width),
                result |-> getAcceptedColumnWidth(toString(width)),
                again |-> FALSE]
    /\ UNCHANGED <<gridSize, children, history, resizeColumnInstance, calls, groupPosition, wysiwyg>>

\* a call getAcceptedColumnWidth(width) on the result of the last call
SnapAgain ==
    /\ last.op = "getAcceptedColumnWidth"
    /\ ~last.again
    /\ last' = [op |-> "getAcceptedColumnWidth", raw |-> last.raw,
                width |-> toString(last.result),
                result |-> getAcceptedColumnWidth(toString(last.result)),
                again |-> TRUE]
    /\ UNCHANGED <<gridSize, children, history, resizeColumnInstance, calls, groupPosition, wysiwyg>>

\* a call getSmallestColumnWidth()
SmallestColumnWidth ==
    /\ last = None
    /\ last' = [op |-> "getSmallestColumnWidth", result |-> getSmallestColumnWidth]
    /\ UNCHANGED <<gridSize, children, history, resizeColumnInstance, calls, groupPosition, wysiwyg>>

NextSnap ==
    \/ \E width \in RawWidths : Snap(width)
    \/ SnapAgain
    \/ SmallestColumnWidth

SpecSnap == InitSnap /\ [][NextSnap]_vars

\* the grid fractions lie more than the tolerance 0.1 apart
StepAboveTolerance == Less(Tenth, percentage(1))

\* C10 as claimed: getAcceptedColumnWidth applied to its own result returns
\* that result, for every grid size.
C10_IdempotentEveryGrid ==
    (last.op = "getAcceptedColumnWidth" /\ last.again)
        => last.result = parseFloat(last.width)

\* C10 amended: getAcceptedColumnWidth applied to its own result returns
\* that result, for every grid size whose grid step 100 / gridSize is more
\* than 0.1.
C10_IdempotentCoarseGrid ==
    (last.op = "getAcceptedColumnWidth" /\ last.again /\ StepAboveTolerance)
        => last.result = parseFloat(last.width)

\* C10 witness: a raw width off the grid was snapped to a grid fraction, and
\* snapping the fraction gave the fraction again.
C10_Witness ==
    /\ last.op = "getAcceptedColumnWidth"
    /\ last.again
    /\ StepAboveTolerance
    /\ last.result # Zero
    /\ last.result # last.raw
    /\ last.result = parseFloat(last.width)

\* ------------------------------------------------------------ claims on getSmallestColumnWidth
\* 8.33333333
OneTwelfth == [i |-> 8, f |-> 33333333]

\* 33.33333333
OneThird == [i |-> 33, f |-> 33333333]

\* C11 as claimed: getSmallestColumnWidth() returns 8.33333333 when gridSize
\* is 12 and 33 when gridSize is 3.
C11_SmallestIs33AtGrid3 ==
    last.op = "getSmallestColumnWidth" =>
        /\ getGridSize = 12 => last.result = OneTwelfth
        /\ getGridSize = 3 => last.result = Num(33)

\* C11 amended: getSmallestColumnWidth() returns 8.33333333 when gridSize is
\* 12 and 33.33333333 when gridSize is 3.
C11_SmallestIsThirdAtGrid3 ==
    last.op = "getSmallestColumnWidth" =>
        /\ getGridSize = 12 => last.result = OneTwelfth
        /\ getGridSize = 3 => last.result = OneThird

\* C11 witness: getSmallestColumnWidth() was called on a grid of 3 and
\* returned a width that is no whole percent.
C11_Witness ==
    /\ last.op = "getSmallestColumnWidth"
    /\ getGridSize = 3
    /\ last.result = OneThird

\* ------------------------------------------------------------ SpecUtils: one operation on a row at rest
\* longest sequence of candidates handed to determineMaxGhostWidth
MaxCandidates == 3

\* The groups rows are drawn in: whole pixels per grid unit from pixel 0, and
\* two groups off pixel 0 whose grid unit is a fraction of a pixel.
GroupPositions(g) ==
    { WholePixelGroup(g),
      [left |-> 7, outerWidth |-> 3 * UnitPx * g + (g - 1)],
      [left |-> 7, outerWidth |-> 3 * UnitPx * g + (g \div 2)] }

InitUtils ==
    /\ \E g \in GestureGridSizes : gridSize = toString(Num(g))
    /\ children \in Rows
    /\ history = NoHistory
    /\ resizeColumnInstance = 0
    /\ calls = 0
    /\ groupPosition \in GroupPositions(getGridSize)
    /\ wysiwyg = NoElement
    /\ last = None

\* what an operation that writes nothing leaves as it is
ReadOnly == UNCHANGED <<gridSize, children, history, resizeColumnInstance, calls, groupPosition, wysiwyg>>

\* ------------------------------------------------------------ GhostExtent
\* a ColumnWidth record; name stands for the i of the name i + "/" + gridSize
ColumnWidth(forColumn, i, position) ==
    [forColumn |-> forColumn, name |-> i, position |-> position,
     width |-> percentage(i)]

\* reading a property of undefined
TypeError == [error |-> "TypeError"]

\* Array.prototype.filter on the forColumn of candidates
FilterForColumn(columnWidths, forColumn) ==
    SelectSeq(columnWidths, LAMBDA width : width.forColumn = forColumn)

\* determineMaxGhostWidth taking the first of the "right" candidates
determineMaxGhostWidth_FirstRight(columnWidths) ==
    LET leftColumns == FilterForColumn(columnWidths, "left")
        rightColumns == FilterForColumn(columnWidths, "right")
    IN  IF leftColumns = <<>> \/ rightColumns = <<>> THEN TypeError
        ELSE [left |-> leftColumns[1].position,
              right |-> rightColumns[1].position]

\* determineMaxGhostWidth(columnWidths).  leftColumns[0] of an empty array
\* and rightColumns[-1] are undefined, and reading .position of undefined
\* throws a TypeError.
determineMaxGhostWidth(columnWidths) ==
    LET leftColumns == FilterForColumn(columnWidths, "left")
        rightColumns == FilterForColumn(columnWidths, "right")
    IN  IF leftColumns = <<>> \/ rightColumns = <<>> THEN TypeError
        ELSE [left |-> leftColumns[1].position,
              right |-> rightColumns[Len(rightColumns)].position]

\* the sequences of at most n candidates over two positions
RECURSIVE CandidateSequences(_)
CandidateSequences(n) ==
    IF n = 0 THEN {<<>>}
    ELSE LET shorter == CandidateSequences(n - 1)
         IN  shorter \cup
             { Append(w, ColumnWidth(forColumn, 1, position)) :
                 w \in shorter, forColumn \in {"left", "right"},
                 position \in {UnitPx, 2 * UnitPx} }

\* a call determineMaxGhostWidth(columnWidths)
DetermineMaxGhostWidth(columnWidths) ==
    /\ last = None
    /\ last' = [op |-> "determineMaxGhostWidth", columnWidths |-> columnWidths,
                result |-> determineMaxGhostWidth(columnWidths),
                before |-> children]
    /\ ReadOnly

\* ------------------------------------------------------------ decisions on given histories
\* the records a history may hold: no column or the last column of the row,
\* either side of the pair
HistoryRecords ==
    { [adjustedColumn |-> adjustedColumn, modifyColumnInPair |-> modifyColumnInPair] :
        adjustedColumn \in {0, Len(children)},
        modifyColumnInPair \in {"left", "right"} }

\* the sequences of at most n records
RECURSIVE RecordSequences(_)
RecordSequences(n) ==
    IF n = 0 THEN {<<>>}
    ELSE LET shorter == RecordSequences(n - 1)
         IN  shorter \cup { Append(h, r) : h \in shorter, r \in HistoryRecords }

\* the histories determineAdjustedColumn is called with: records in one
\* branch, or in both
Histories ==
    UNION { { [left |-> h, right |-> <<>>], [left |-> <<>>, right |-> h],
              [left |-> h, right |-> Reverse(h)] } :
            h \in RecordSequences(MaxHistory) }

\* the pointer positions around the handle of a column: the whole pixels
\* next to it
PointerPositions(column) ==
    { (resizeHandlePosition(column) \div getGridSize) + delta : delta \in {-1, 0, 1} }

\* a call determineAdjustedColumn(currentPos, column, history)
DetermineAdjustedColumn(currentPos, column, hist) ==
    /\ last = None
    /\ \E decision \in {determineAdjustedColumn(currentPos, column, hist)} :
          last' = [op |-> "determineAdjustedColumn", currentPos |-> currentPos,
                   column |-> column, history |-> hist,
                   historyAfter |-> decision.history,
                   adjustedColumn |-> decision.adjustedColumn,
                   modifyColumnInPair |-> decision.modifyColumnInPair,
                   usedHistory |-> decision.usedHistory,
                   before |-> children]
    /\ ReadOnly

\* ------------------------------------------------------------ PositionCalculator
\* the 10 pixels of slack on either bound
Threshold == 10

\* Math.round and Math.floor of a position in gridSize-ths of a pixel, in
\* whole pixels; Math.round rounds a half upwards
MathRound(x) == (2 * x + getGridSize) \div (2 * getGridSize)

MathFloor(x) == x \div getGridSize

\* column.parent.children().length - (getColumnIndexInGroup(column) + 1)
columnsToRight(column) == Len(parentChildren) - (getColumnIndexInGroup(column) + 1)

\* leftMaxWidthFromChildren without the 10 pixels of slack
leftMaxWidthFromChildren_NoThreshold(column, cache) ==
    Px(cache.left) + Px(cache.outerWidth) - columnsToRight(column) * cache.outerWidth

\* groupPosition.left + groupPosition.outerWidth
\*     - columnsToRight * singleColumnWidth + 10,
\* where singleColumnWidth is outerWidth / gridSize pixels, that is
\* outerWidth gridSize-ths of a pixel
leftMaxWidthFromChildren(column, cache) ==
    Px(cache.left) + Px(cache.outerWidth)
        - columnsToRight(column) * cache.outerWidth + Px(Threshold)

\* groupPosition.left
\*     + (children().length - columnsToRight) * singleColumnWidth - 10
rightMaxWidthFromChildren(column, cache) ==
    Px(cache.left)
        + (Len(parentChildren) - columnsToRight(column)) * cache.outerWidth
        - Px(Threshold)

\* offset().left + outerWidth(true) of the preview of the adjacent column
adjacentRightPosition(column) ==
    resizeHandlePosition(getAdjacentColumn(column, 1))

\* the first loop, for (i = from; i > 0; i--): the positions of the left
\* column of the pair
RECURSIVE LeftColumnWidths(_, _, _)
LeftColumnWidths(column, cache, from) ==
    IF from <= 0 THEN <<>>
    ELSE LET position == MathRound(resizeColumnLeft(column) + cache.outerWidth * from)
         IN  IF position > MathRound(leftMaxWidthFromChildren(column, cache))
             THEN LeftColumnWidths(column, cache, from - 1)
             ELSE <<ColumnWidth("left", from, position)>>
                      \o LeftColumnWidths(column, cache, from - 1)

\* the second loop, for (i = from; i < gridSize; i++)
RECURSIVE RightColumnWidths(_, _, _)
RightColumnWidths(column, cache, from) ==
    IF from >= getGridSize THEN <<>>
    ELSE LET position == MathFloor(adjacentRightPosition(column) - from * cache.outerWidth)
         IN  IF position < MathFloor(rightMaxWidthFromChildren(column, cache))
             THEN RightColumnWidths(column, cache, from + 1)
             ELSE <<ColumnWidth("right", from, position)>>
                      \o RightColumnWidths(column, cache, from + 1)

\* determineColumnWidths(column, groupPosition); reading .preview of the null
\* getAdjacentColumn returns for the last column throws a TypeError
determineColumnWidths(column, cache) ==
    IF getAdjacentColumn(column, 1) = 0 THEN TypeError
    ELSE LeftColumnWidths(column, cache, getGridSize)
             \o RightColumnWidths(column, cache, 1)

\* a call determineColumnWidths(column, groupPosition)
DetermineColumnWidths(column) ==
    /\ last = None
    /\ last' = [op |-> "determineColumnWidths", column |-> column,
                result |-> determineColumnWidths(column, groupPosition),
                before |-> children]
    /\ ReadOnly

\* element.position().left of the column's preview: its left edge counted
\* from the left edge of the group
positionLeft(column) == resizeColumnLeft(column) - Px(groupPosition.left)

\* calculateGhostWidth without the floor of the smallest column
calculateGhostWidth_NoMinimum(cache, currentPos, column, modifyColumnInPair, maxGhostWidth) ==
    LET ghostWidth == Px(currentPos) - Px(cache.left)
    IN  IF modifyColumnInPair = "left"
        THEN IF currentPos >= maxGhostWidth.left
             THEN Px(maxGhostWidth.left) - Px(cache.left)
             ELSE ghostWidth
        ELSE IF modifyColumnInPair = "right"
             THEN IF currentPos <= maxGhostWidth.right
                  THEN Px(maxGhostWidth.right) - Px(cache.left)
                  ELSE ghostWidth
             ELSE ghostWidth

\* calculateGhostWidth(groupPosition, currentPos, column, modifyColumnInPair,
\* maxGhostWidth), in gridSize-ths of a pixel.  The second test of the case
\* "left" overwrites what the first one set.
calculateGhostWidth(cache, currentPos, column, modifyColumnInPair, maxGhostWidth) ==
    LET ghostWidth == Px(currentPos) - Px(cache.left)
        singleColumnWidth == positionLeft(column) + cache.outerWidth
    IN  IF modifyColumnInPair = "left"
        THEN IF currentPos >= maxGhostWidth.left
             THEN Px(maxGhostWidth.left) - Px(cache.left)
             ELSE IF ghostWidth <= singleColumnWidth
                  THEN singleColumnWidth
                  ELSE ghostWidth
        ELSE IF modifyColumnInPair = "right"
             THEN IF currentPos <= maxGhostWidth.right
                  THEN Px(maxGhostWidth.right) - Px(cache.left)
                  ELSE ghostWidth
             ELSE ghostWidth

\* The bounds calculateGhostWidth is called with: those of
\* determineMaxGhostWidth(determineColumnWidths(column)) when both return,
\* and the whole group.
GhostBounds(column) ==
    LET columnWidths == determineColumnWidths(column, groupPosition)
        computed ==
            IF columnWidths = TypeError THEN TypeError
            ELSE determineMaxGhostWidth(columnWidths)
    IN  (IF computed = TypeError THEN {} ELSE {computed})
        \cup { [left |-> groupPosition.left + groupPosition.outerWidth,
                right |-> groupPosition.left] }

\* the pointer positions around the bounds and around the smallest extent of
\* the column
GhostPointers(column, maxGhostWidth) ==
    { edge + delta :
        edge \in { maxGhostWidth.left, maxGhostWidth.right,
                   MathFloor(resizeColumnLeft(column) + groupPosition.outerWidth) },
        delta \in {-1, 0, 1} }

\* a call calculateGhostWidth(groupPosition, currentPos, column,
\* modifyColumnInPair, maxGhostWidth)
CalculateGhostWidth(currentPos, column, modifyColumnInPair, maxGhostWidth) ==
    /\ last = None
    /\ last' = [op |-> "calculateGhostWidth", currentPos |-> currentPos,
                column |-> column, modifyColumnInPair |-> modifyColumnInPair,
                maxGhostWidth |-> maxGhostWidth,
                result |-> calculateGhostWidth(groupPosition, currentPos, column,
                                               modifyColumnInPair, maxGhostWidth),
                before |-> children]
    /\ ReadOnly

\* ------------------------------------------------------------ the other operations that read the row
\* getColumnsWidth(): the snapped widths added up from the left; a width of
\* 0 adds 0
RECURSIVE SumOfWidths(_)
SumOfWidths(widths) ==
    IF Len(widths) = 1 THEN Head(widths)
    ELSE Plus(SumOfWidths(SubSeq(widths, 1, Len(widths) - 1)), widths[Len(widths)])

getColumnsWidth ==
    SumOfWidths([c \in DOMAIN children |-> getColumnWidth(c)])

\* outwardSearch(items, start, predicate) is not among the sources; by the
\* specification it scans both sides of the start at growing distance,
\* nearest first (distance 1, -1, 2, -2, ...), and returns the first item
\* the predicate accepts, or none
RECURSIVE outwardSearch(_, _, _)
outwardSearch(items, start, distance) ==
    IF start + distance > Len(items) /\ start - distance < 1 THEN 0
    ELSE IF /\ start + distance <= Len(items)
            /\ Less(getSmallestColumnWidth, getColumnWidth(items[start + distance]))
         THEN items[start + distance]
         ELSE IF /\ start - distance >= 1
                 /\ Less(getSmallestColumnWidth, getColumnWidth(items[start - distance]))
              THEN items[start - distance]
              ELSE outwardSearch(items, start, distance + 1)

findShrinkableColumn(column) ==
    outwardSearch(parentChildren, getColumnIndexInGroup(column) + 1, 1)

\* a call getColumnWidth(column)
GetColumnWidth(column) ==
    /\ last = None
    /\ last' = [op |-> "getColumnWidth", column |-> column,
                result |-> getColumnWidth(column), before |-> children]
    /\ ReadOnly

\* a call getColumnsWidth()
GetColumnsWidth ==
    /\ last = None
    /\ last' = [op |-> "getColumnsWidth", result |-> getColumnsWidth,
                before |-> children]
    /\ ReadOnly

\* a call findShrinkableColumn(column)
FindShrinkableColumn(column) ==
    /\ last = None
    /\ last' = [op |-> "findShrinkableColumn", column |-> column,
                result |-> findShrinkableColumn(column), before |-> children]
    /\ ReadOnly

\* a call resizeColumn(column, width, shrinkableColumn) on the row at rest
ResizeColumnAtRest(column, width, shrinkableColumn) ==
    /\ last = None
    /\ ResizeColumn(column, width, shrinkableColumn)

\* a call findShrinkableColumnForResize(column, direction)
FindShrinkableColumnForResize(column, direction) ==
    /\ last = None
    /\ last' = [op |-> "findShrinkableColumnForResize", column |-> column,
                direction |-> direction,
                result |-> findShrinkableColumnForResize(column, direction),
                before |-> children]
    /\ ReadOnly

\* one operation is applied to the row at rest
NextUtils ==
    \/ /\ last = None
       /\ \E column \in DOMAIN children, width \in TargetWidths,
             shrinkableColumn \in 0..Len(children) :
              ResizeColumnAtRest(column, width, shrinkableColumn)
    \/ /\ last = None
       /\ \E column \in DOMAIN children : GetColumnWidth(column)
    \/ GetColumnsWidth
    \/ /\ last = None
       /\ \E column \in DOMAIN children : FindShrinkableColumn(column)
    \/ /\ last = None
       /\ \E column \in DOMAIN children : DetermineColumnWidths(column)
    \/ /\ last = None
       /\ \E column \in DOMAIN children, modifyColumnInPair \in {"left", "right"} :
              \E maxGhostWidth \in GhostBounds(column) :
                  \E currentPos \in GhostPointers(column, maxGhostWidth) :
                      CalculateGhostWidth(currentPos, column, modifyColumnInPair,
                                          maxGhostWidth)
    \/ /\ last = None
       /\ \E column \in DOMAIN children, direction \in {"left", "right"} :
              FindShrinkableColumnForResize(column, direction)
    \/ /\ last = None
       /\ \E columnWidths \in CandidateSequences(MaxCandidates) :
              DetermineMaxGhostWidth(columnWidths)
    \/ /\ last = None
       /\ \E column \in DOMAIN children :
              \E currentPos \in PointerPositions(column), hist \in Histories :
                  DetermineAdjustedColumn(currentPos, column, hist)

SpecUtils == InitUtils /\ [][NextUtils]_vars

\* ------------------------------------------------------------ claims on determineMaxGhostWidth
\* the places of the candidates of the last call tagged forColumn
Tagged(forColumn) ==
    { k \in DOMAIN last.columnWidths : last.columnWidths[k].forColumn = forColumn }

Smallest(set) == CHOOSE m \in set : \A n \in set : m <= n

\* C12: determineMaxGhostWidth returns the position of the first "left"
\* candidate as left and the position of the last "right" candidate as
\* right; when the sequence has no "left" or no "right" candidate it fails
\* with an error and changes nothing.
C12_FirstLeftLastRightOrError ==
    last.op = "determineMaxGhostWidth" =>
        IF Tagged("left") = {} \/ Tagged("right") = {}
        THEN last.result = TypeError /\ children = last.before
        ELSE last.result =
                 [left |-> last.columnWidths[Smallest(Tagged("left"))].position,
                  right |-> last.columnWidths[Largest(Tagged("right"))].position]

\* C12 witness: a sequence with "left" candidates and no "right" one made
\* the call fail.
C12_Witness ==
    /\ last.op = "determineMaxGhostWidth"
    /\ Tagged("left") # {}
    /\ Tagged("right") = {}
    /\ last.result = TypeError

\* ------------------------------------------------------------ claims on one call of determineAdjustedColumn
Decided == last.op = "determineAdjustedColumn"

\* the pointer of the last call is left of the handle of its column
PointerLeftOfHandle == Px(last.currentPos) < resizeHandlePosition(last.column)

\* the column of the last call is at, not above, the smallest width
ColumnAtSmallest == ~Less(getSmallestColumnWidth, getColumnWidth(last.column))

\* the columns left of the column of the last call that are wider than the
\* smallest width
WiderOnTheLeft ==
    { c \in 1..(last.column - 1) : Less(getSmallestColumnWidth, getColumnWidth(c)) }

\* C13: determineAdjustedColumn leaves history.left and history.right with
\* the same records in the same order as before the call, whichever branch
\* is taken.
C13_HistoryUnchanged ==
    Decided => last.historyAfter = last.history

\* C13 witness: a call reused a history of two different records or more.
C13_Witness ==
    /\ Decided
    /\ last.usedHistory # ""
    /\ Len(last.history[last.usedHistory]) >= 2
    /\ last.history[last.usedHistory][1] # UsedRecord
    /\ last.historyAfter = last.history

\* C14: with the pointer left of the handle and the column at the smallest
\* width, determineAdjustedColumn returns the nearest column on the left
\* wider than the smallest width with the pair side "right", or no column
\* with the pair side "left"; it reports no used history whatever
\* history.right holds.
C14_AtSmallestSearchesLeft ==
    (Decided /\ PointerLeftOfHandle /\ ColumnAtSmallest) =>
        /\ last.usedHistory = ""
        /\ IF WiderOnTheLeft = {}
           THEN last.adjustedColumn = 0 /\ last.modifyColumnInPair = "left"
           ELSE /\ last.adjustedColumn = Largest(WiderOnTheLeft)
                /\ last.modifyColumnInPair = "right"

\* C14 witness: the column at the smallest width has a wider column on its
\* left, and history.right holds a record naming another column.
C14_Witness ==
    /\ Decided /\ PointerLeftOfHandle /\ ColumnAtSmallest
    /\ WiderOnTheLeft # {}
    /\ last.history.right # <<>>
    /\ last.history.right[Len(last.history.right)].adjustedColumn
           # last.adjustedColumn
    /\ last.modifyColumnInPair = "right"

\* C15: with the pointer at or right of the handle and history.left empty,
\* determineAdjustedColumn returns the result of the rightward search with
\* the pair side "left" and no used history, whatever history.right holds.
C15_RightwardSearch ==
    (Decided /\ ~PointerLeftOfHandle /\ last.history.left = <<>>) =>
        /\ last.adjustedColumn = findShrinkableColumnForResize(last.column, "right")
        /\ last.modifyColumnInPair = "left"
        /\ last.usedHistory = ""

\* C15 witness: the pointer is exactly on the handle, history.right holds a
\* record, and the rightward search found a column.
C15_Witness ==
    /\ Decided
    /\ Px(last.currentPos) = resizeHandlePosition(last.column)
    /\ last.history.left = <<>>
    /\ last.history.right # <<>>
    /\ last.adjustedColumn # 0
    /\ last.adjustedColumn = findShrinkableColumnForResize(last.column, "right")

\* ------------------------------------------------------------ claims on findShrinkableColumnForResize
\* the columns strictly on the side the last search looked at that are wider
\* than the smallest width
WiderOnTheSide ==
    { c \in (IF last.direction = "left"
             THEN 1..(last.column - 1)
             ELSE (last.column + 1)..Len(children)) :
        Less(getSmallestColumnWidth, getColumnWidth(c)) }

\* C16: findShrinkableColumnForResize returns the column nearest to the
\* given one, strictly on the requested side, whose snapped width is above
\* getSmallestColumnWidth(), and none when that side has no such column.
C16_NearestWiderOnTheSide ==
    last.op = "findShrinkableColumnForResize" =>
        last.result =
            IF WiderOnTheSide = {} THEN 0
            ELSE IF last.direction = "left" THEN Largest(WiderOnTheSide)
                 ELSE Smallest(WiderOnTheSide)

\* C16 witness: a leftward search passed over the neighbour at the smallest
\* width and returned a column further left.
C16_Witness ==
    /\ last.op = "findShrinkableColumnForResize"
    /\ last.direction = "left"
    /\ last.result # 0
    /\ last.result < last.column - 1

\* ------------------------------------------------------------ claims on getAcceptedColumnWidth
\* |a - b|
Distance(a, b) == IF Less(a, b) THEN Minus(b, a) ELSE Minus(a, b)

\* the grid units whose fraction lies within 0.1 of the width of the last call
UnitsWithinTenth ==
    { i \in 1..getGridSize :
        Less(Distance(parseFloat(last.width), percentage(i)), Tenth) }

\* C17: getAcceptedColumnWidth(w) returns the grid fraction of the largest i
\* in 1..gridSize that lies within 0.1 of w, and 0 exactly when no grid
\* fraction does; a result other than 0 is less than 0.1 away from w.
C17_LargestFractionWithinTenth ==
    last.op = "getAcceptedColumnWidth" =>
        IF UnitsWithinTenth = {}
        THEN last.result = Zero
        ELSE /\ last.result = percentage(Largest(UnitsWithinTenth))
             /\ last.result # Zero
             /\ Less(Distance(parseFloat(last.width), last.result), Tenth)

\* C17 witness: two grid fractions lie within 0.1 of the width, and the call
\* returned the larger one.
C17_Witness ==
    /\ last.op = "getAcceptedColumnWidth"
    /\ Cardinality(UnitsWithinTenth) >= 2
    /\ last.result = percentage(Largest(UnitsWithinTenth))

\* ------------------------------------------------------------ claims on determineColumnWidths
\* the last call returned a sequence of candidates
WidthsDetermined ==
    last.op = "determineColumnWidths" /\ last.result # TypeError

\* round(group.left + group.outerWidth - columnsToRight * unit + 10)
LeftBound ==
    MathRound(Px(groupPosition.left) + Px(groupPosition.outerWidth)
                  - (Len(children) - last.column) * groupPosition.outerWidth
                  + Px(Threshold))

\* floor(group.left + (columnCount - columnsToRight) * unit - 10)
RightBound ==
    MathFloor(Px(groupPosition.left) + last.column * groupPosition.outerWidth
                  - Px(Threshold))

\* the position of grid index i for the left column of the pair
LeftPosition(i) ==
    MathRound(resizeColumnLeft(last.column) + i * groupPosition.outerWidth)

\* the position of grid index i for the right column of the pair
RightPosition(i) ==
    MathFloor(resizeHandlePosition(last.column + 1) - i * groupPosition.outerWidth)

\* the grid indices whose left position is inside the left bound
LeftInside == { i \in 1..getGridSize : LeftPosition(i) <= LeftBound }

\* the grid indices whose right position is inside the right bound
RightInside == { i \in 1..(getGridSize - 1) : RightPosition(i) >= RightBound }

\* the places of the candidates of the returned sequence tagged forColumn
Returned(forColumn) ==
    { k \in DOMAIN last.result : last.result[k].forColumn = forColumn }

\* C18: in the sequence determineColumnWidths returns, every "left"
\* candidate lies at or below round(leftMaxWidthFromChildren), every "right"
\* candidate at or above floor(rightMaxWidthFromChildren), every grid index
\* whose position is inside its bound is present, the "left" candidates come
\* first in strictly decreasing grid index and the "right" ones follow in
\* strictly increasing grid index.
C18_CandidatesWithinBounds ==
    WidthsDetermined =>
        /\ \A k \in Returned("left") :
              /\ last.result[k].position <= LeftBound
              /\ last.result[k].position = LeftPosition(last.result[k].name)
        /\ \A k \in Returned("right") :
              /\ last.result[k].position >= RightBound
              /\ last.result[k].position = RightPosition(last.result[k].name)
        /\ { last.result[k].name : k \in Returned("left") } = LeftInside
        /\ { last.result[k].name : k \in Returned("right") } = RightInside
        /\ Returned("left") \cup Returned("right") = DOMAIN last.result
        /\ \A j, k \in DOMAIN last.result :
              j < k =>
                  /\ ~(j \in Returned("right") /\ k \in Returned("left"))
                  /\ (j \in Returned("left") /\ k \in Returned("left"))
                         => last.result[j].name > last.result[k].name
                  /\ (j \in Returned("right") /\ k \in Returned("right"))
                         => last.result[j].name < last.result[k].name

\* C18 witness: a group whose grid unit is a fraction of a pixel; some grid
\* index was left out on either side and candidates remain on both.
C18_Witness ==
    /\ WidthsDetermined
    /\ groupPosition.outerWidth % getGridSize # 0
    /\ LeftInside # {} /\ LeftInside # 1..getGridSize
    /\ RightInside # {} /\ RightInside # 1..(getGridSize - 1)
    /\ Len(last.result) = Cardinality(LeftInside) + Cardinality(RightInside)

\* ------------------------------------------------------------ claims on calculateGhostWidth
GhostCalculated == last.op = "calculateGhostWidth"

\* the smallest extent of the column of the last call: its left position
\* plus one grid unit, in gridSize-ths of a pixel
SmallestExtent == positionLeft(last.column) + groupPosition.outerWidth

\* maxGhostWidth.left - group.left and maxGhostWidth.right - group.left
LeftExtent == Px(last.maxGhostWidth.left) - Px(groupPosition.left)

RightExtent == Px(last.maxGhostWidth.right) - Px(groupPosition.left)

\* pointer - group.left
PointerOffset == Px(last.currentPos) - Px(groupPosition.left)

\* what C19 says of a call
GhostClamped ==
    /\ last.modifyColumnInPair = "left" =>
          /\ last.result >= SmallestExtent
          /\ last.result <= LeftExtent
          /\ (SmallestExtent < PointerOffset /\ PointerOffset < LeftExtent)
                 => last.result = PointerOffset
    /\ last.modifyColumnInPair = "right" =>
          /\ last.result >= RightExtent
          /\ PointerOffset > RightExtent => last.result = PointerOffset

ReadOnlyOperations ==
    { "getColumnWidth", "getColumnsWidth", "findShrinkableColumnForResize",
      "findShrinkableColumn", "determineAdjustedColumn", "determineColumnWidths",
      "determineMaxGhostWidth", "calculateGhostWidth" }

\* C20: a resizeColumn call changes the stored width of no column but its
\* target column and its compensating column; the operations that only read
\* change no stored width and leave the columns of the row in their order.
C20_OnlyTargetAndCompensatingWritten ==
    /\ Resized =>
          /\ DOMAIN children = DOMAIN last.before
          /\ \A c \in DOMAIN children :
                c \notin {last.column, last.shrinkableColumn}
                    => children[c] = last.before[c]
    /\ last.op \in ReadOnlyOperations => children = last.before

\* C20 witness: a call on a row of three columns or more wrote its target
\* and its compensating column, and the widths of the row are not all equal.
C20_Witness ==
    /\ Resized
    /\ Len(children) >= 3
    /\ Len(last.writes) = 2
    /\ children[last.column] # last.before[last.column]
    /\ children[last.shrinkableColumn] # last.before[last.shrinkableColumn]
    /\ \E c \in DOMAIN children :
          /\ c \notin {last.column, last.shrinkableColumn}
          /\ children[c] # children[last.column]

\* ------------------------------------------------------------ claims on the room determineColumnWidths leaves
\* C21: every "left" candidate of grid index i that determineColumnWidths
\* returns for a column L grid units from the left edge of the group, with R
\* columns on its right, has L + i + R <= gridSize: the width it offers
\* leaves a grid unit to every column on the right.
C21_LeftCandidatesLeaveRoom ==
    WidthsDetermined =>
        \A k \in Returned("left") :
            UnitsBefore(last.column) + last.result[k].name
                + (Len(children) - last.column) <= getGridSize

\* ------------------------------------------------------------ the wysiwyg form element
\* (web/js/form/element/wysiwyg.js).  The stage, the event bus and the
\* inherited form element are not among the sources: the stage's events are
\* inputs, and this._super() is taken to leave the fields below as they are.

\* the calls and stage events delivered to the element
MaxSteps == 4

\* The element after construction with its defaults (lines 23-35), with or
\* without wysiwygConfigData().pagebuilder_button.  pageBuilder 0 stands for
\* false, another number for the id of the instance.  constructed and
\* registered count the PageBuilder instances built and the runs of
\* initPageBuilderListeners; received lists renderAfter and
\* fullScreenModeChangeAfter with fullScreen true in the order the listeners
\* first got them, lastFullScreen holds the fullScreen of the latest
\* fullScreenModeChangeAfter; steps counts the calls and events.
Defaults(button) ==
    [element |-> "wysiwyg", pagebuilder_button |-> button,
     transition |-> FALSE, transitionOut |-> FALSE, pageBuilder |-> 0,
     visiblePageBuilder |-> FALSE, isComponentInitialized |-> FALSE,
     isWithinModal |-> FALSE, modal |-> FALSE, modalCss |-> "",
     loading |-> FALSE, value |-> "", disabledNodes |-> {},
     constructed |-> 0, registered |-> 0,
     rendered |-> FALSE, renderDeferred |-> "pending",
     fullScreenDeferred |-> "pending",
     pending |-> <<>>, received |-> <<>>, lastFullScreen |-> <<>>,
     steps |-> 0]

\* _.defer(callback), _.delay(callback, 185) and $.async(..., callback): the
\* callback joins the pending ones
Schedule(w, kind, callback) ==
    [w EXCEPT !.pending = Append(@, [kind |-> kind, callback |-> callback])]

\* jQuery.when(renderDeferred, fullScreenDeferred).done: run when the second
\* of the two is resolved
whenDone(w) == Schedule(w, "defer", "transition")

\* renderDeferred.resolve(); resolving a resolved deferred does nothing
resolveRenderDeferred(w) ==
    IF w.renderDeferred = "resolved" THEN w
    ELSE IF w.fullScreenDeferred = "resolved"
         THEN whenDone([w EXCEPT !.renderDeferred = "resolved"])
         ELSE [w EXCEPT !.renderDeferred = "resolved"]

\* fullScreenDeferred.resolve()
resolveFullScreenDeferred(w) ==
    IF w.fullScreenDeferred = "resolved" THEN w
    ELSE IF w.renderDeferred = "resolved"
         THEN whenDone([w EXCEPT !.fullScreenDeferred = "resolved"])
         ELSE [w EXCEPT !.fullScreenDeferred = "resolved"]

\* initPageBuilderListeners(): the listeners are registered on the events of
\* the stage of this.pageBuilder.id, with fresh deferreds and rendered false
initPageBuilderListeners(w) ==
    [w EXCEPT !.registered = @ + 1, !.rendered = FALSE,
              !.renderDeferred = "pending", !.fullScreenDeferred = "pending"]

\* initPageBuilder building a PageBuilder instance on every call
initPageBuilder_EveryCall(w) ==
    LET built ==
            Schedule(
                [initPageBuilderListeners(
                     [w EXCEPT !.loading = TRUE,
                               !.pageBuilder = w.constructed + 1,
                               !.constructed = @ + 1])
                   EXCEPT !.isComponentInitialized = TRUE],
                "async", "disableDomObserver")
    IN  IF ~w.pagebuilder_button
        THEN [built EXCEPT !.visiblePageBuilder = TRUE]
        ELSE built

\* initPageBuilder()
initPageBuilder(w) ==
    LET built ==
            IF ~w.isComponentInitialized
            THEN Schedule(
                     [initPageBuilderListeners(
                          [w EXCEPT !.loading = TRUE,
                                    !.pageBuilder = w.constructed + 1,
                                    !.constructed = @ + 1])
                        EXCEPT !.isComponentInitialized = TRUE],
                     "async", "disableDomObserver")
            ELSE w
    IN  IF ~w.pagebuilder_button
        THEN [built EXCEPT !.visiblePageBuilder = TRUE]
        ELSE built

\* initialize()
initialize(w) ==
    IF ~w.pagebuilder_button THEN initPageBuilder(w) ELSE w

\* pageBuilderEditButtonClick(context, event); withinModal tells whether the
\* button has one .modal-inner-wrap among its parents.  toggleFullScreen()
\* triggers an event for the stage, which answers with the events below.
pageBuilderEditButtonClick(w, withinModal) ==
    LET clicked ==
            [w EXCEPT !.transition = FALSE,
                      !.isWithinModal = withinModal,
                      !.modal = IF withinModal THEN TRUE ELSE @,
                      !.disabledNodes =
                          IF ~w.isComponentInitialized
                          THEN @ \cup {"button"} ELSE @]
    IN  initPageBuilder(clicked)

\* the events received, with one more
Received(received, event) ==
    IF \E k \in DOMAIN received : received[k] = event
    THEN received ELSE Append(received, event)

\* the listener of readyAfter
readyAfter(w) == [w EXCEPT !.loading = FALSE]

\* the listener of renderAfter
renderAfter(w) ==
    [resolveRenderDeferred(w) EXCEPT !.rendered = TRUE,
                                     !.received = Received(@, "renderAfter")]

\* the listener of masterFormatRenderAfter
masterFormatRenderAfter(w, args) == [w EXCEPT !.value = args.value]

\* the css the listener of fullScreenModeChangeAfter gives the modal
modalCssAfter(w, css) ==
    IF w.isWithinModal /\ w.modal THEN [w EXCEPT !.modalCss = css] ELSE w

\* the listener of fullScreenModeChangeAfter animating the stage in without
\* testing rendered
fullScreenModeChangeAfter_WithoutRendered(w, args) ==
    LET got == [w EXCEPT !.lastFullScreen = <<args.fullScreen>>,
                         !.received = IF args.fullScreen
                                      THEN Received(@, "fullScreen") ELSE @]
    IN  IF ~args.fullScreen /\ w.pagebuilder_button
        THEN Schedule([modalCssAfter(got, "")
                          EXCEPT !.transitionOut = TRUE, !.transition = FALSE],
                      "delay", "hide")
        ELSE IF args.fullScreen /\ w.pagebuilder_button
             THEN Schedule(
                      resolveFullScreenDeferred(
                          modalCssAfter([got EXCEPT !.visiblePageBuilder = TRUE],
                                        "none")),
                      "defer", "transition")
             ELSE got

\* the listener of fullScreenModeChangeAfter
fullScreenModeChangeAfter(w, args) ==
    LET got == [w EXCEPT !.lastFullScreen = <<args.fullScreen>>,
                         !.received = IF args.fullScreen
                                      THEN Received(@, "fullScreen") ELSE @]
    IN  IF ~args.fullScreen /\ w.pagebuilder_button
        THEN Schedule([modalCssAfter(got, "")
                          EXCEPT !.transitionOut = TRUE, !.transition = FALSE],
                      "delay", "hide")
        ELSE IF args.fullScreen /\ w.pagebuilder_button
             THEN LET resolved ==
                          resolveFullScreenDeferred(
                              modalCssAfter(
                                  [got EXCEPT !.visiblePageBuilder = TRUE],
                                  "none"))
                  IN  IF resolved.rendered
                      THEN Schedule(resolved, "defer", "transition")
                      ELSE resolved
             ELSE got

\* Array.prototype.splice(k, 1) on the pending callbacks
Without(pending, k) ==
    SubSeq(pending, 1, k - 1) \o SubSeq(pending, k + 1, Len(pending))

\* The timers run in the order they expire in.  A deferred callback (1 ms)
\* runs after the deferred ones scheduled before it; a delayed one (185 ms)
\* after the deferred and delayed ones scheduled before it; the callback of
\* $.async runs when the stage's element shows up.
CanRun(w, k) ==
    \/ w.pending[k].kind = "async"
    \/ /\ w.pending[k].kind = "defer"
       /\ \A j \in 1..(k - 1) : w.pending[j].kind # "defer"
    \/ /\ w.pending[k].kind = "delay"
       /\ \A j \in 1..(k - 1) : w.pending[j].kind = "async"

\* what the k-th pending callback does
runCallback(w, k) ==
    LET rest == [w EXCEPT !.pending = Without(@, k)]
    IN  IF w.pending[k].callback = "transition"
        THEN [rest EXCEPT !.transition = TRUE]
        ELSE IF w.pending[k].callback = "hide"
             THEN [rest EXCEPT !.transitionOut = FALSE,
                               !.visiblePageBuilder = FALSE]
             ELSE [rest EXCEPT !.disabledNodes = @ \cup {"stage"}]

\* ------------------------------------------------------------ SpecWysiwyg
InitWysiwyg ==
    /\ gridSize = toString(Num(MaxGridSize))
    /\ children = <<>>
    /\ history = NoHistory
    /\ resizeColumnInstance = 0
    /\ calls = 0
    /\ groupPosition = WholePixelGroup(getGridSize)
    /\ \E button \in BOOLEAN : wysiwyg = Defaults(button)
    /\ last = None

\* what the element's operations leave as it is
ColumnGroupUnchanged ==
    UNCHANGED <<gridSize, children, history, resizeColumnInstance, calls, groupPosition>>

\* the element after one more call or event
Stepped(w) == [w EXCEPT !.steps = @ + 1]

Initialize ==
    /\ wysiwyg.steps < MaxSteps
    /\ wysiwyg' = Stepped(initialize(wysiwyg))
    /\ last' = [op |-> "initialize", before |-> wysiwyg]
    /\ ColumnGroupUnchanged

InitPageBuilder ==
    /\ wysiwyg.steps < MaxSteps
    /\ wysiwyg' = Stepped(initPageBuilder(wysiwyg))
    /\ last' = [op |-> "initPageBuilder", before |-> wysiwyg]
    /\ ColumnGroupUnchanged

PageBuilderEditButtonClick(withinModal) ==
    /\ wysiwyg.steps < MaxSteps
    /\ wysiwyg' = Stepped(pageBuilderEditButtonClick(wysiwyg, withinModal))
    /\ last' = [op |-> "pageBuilderEditButtonClick", before |-> wysiwyg]
    /\ ColumnGroupUnchanged

\* the stage sends its events to the listeners once they are registered
ReadyAfter ==
    /\ wysiwyg.steps < MaxSteps
    /\ wysiwyg.registered > 0
    /\ wysiwyg' = Stepped(readyAfter(wysiwyg))
    /\ last' = [op |-> "readyAfter", before |-> wysiwyg]
    /\ ColumnGroupUnchanged

RenderAfter ==
    /\ wysiwyg.steps < MaxSteps
    /\ wysiwyg.registered > 0
    /\ wysiwyg' = Stepped(renderAfter(wysiwyg))
    /\ last' = [op |-> "renderAfter", before |-> wysiwyg]
    /\ ColumnGroupUnchanged

MasterFormatRenderAfter(args) ==
    /\ wysiwyg.steps < MaxSteps
    /\ wysiwyg.registered > 0
    /\ wysiwyg' = Stepped(masterFormatRenderAfter(wysiwyg, args))
    /\ last' = [op |-> "masterFormatRenderAfter", before |-> wysiwyg]
    /\ ColumnGroupUnchanged

FullScreenModeChangeAfter(args) ==
    /\ wysiwyg.steps < MaxSteps
    /\ wysiwyg.registered > 0
    /\ wysiwyg' = Stepped(fullScreenModeChangeAfter(wysiwyg, args))
    /\ last' = [op |-> "fullScreenModeChangeAfter", before |-> wysiwyg]
    /\ ColumnGroupUnchanged

\* a pending callback runs
RunCallback(k) ==
    /\ CanRun(wysiwyg, k)
    /\ wysiwyg' = runCallback(wysiwyg, k)
    /\ last' = [op |-> "callback", before |-> wysiwyg]
    /\ ColumnGroupUnchanged

NextWysiwyg ==
    \/ Initialize
    \/ InitPageBuilder
    \/ \E withinModal \in BOOLEAN : PageBuilderEditButtonClick(withinModal)
    \/ ReadyAfter
    \/ RenderAfter
    \/ MasterFormatRenderAfter([value |-> "<div></div>"])
    \/ \E fullScreen \in BOOLEAN :
           FullScreenModeChangeAfter([fullScreen |-> fullScreen])
    \/ \E k \in DOMAIN wysiwyg.pending : RunCallback(k)

SpecWysiwyg == InitWysiwyg /\ [][NextWysiwyg]_vars

\* ------------------------------------------------------------ claims on the wysiwyg element
\* the calls that may initialise Page Builder
InitialisingCalls == {"initialize", "initPageBuilder", "pageBuilderEditButtonClick"}

\* C22: across any sequence of initialize, initPageBuilder and
\* pageBuilderEditButtonClick calls the PageBuilder instance is constructed at
\* most once and initPageBuilderListeners runs at most once; once an instance
\* exists, pageBuilder (its id) and the registered listeners stay as they are.
C22_InitialisedOnce ==
    [][/\ wysiwyg'.constructed <= 1
       /\ wysiwyg'.registered <= 1
       /\ wysiwyg.constructed = 1 =>
              /\ wysiwyg'.pageBuilder = wysiwyg.pageBuilder
              /\ wysiwyg'.constructed = wysiwyg.constructed
              /\ wysiwyg'.registered = wysiwyg.registered]_vars

\* one of the three calls was made on an element already initialised
C22_Witness ==
    /\ last.op \in InitialisingCalls
    /\ last.before.isComponentInitialized
    /\ last.before.pageBuilder = 1
    /\ wysiwyg.pageBuilder = 1

\* C23: transition is true only after the listeners received both a
\* renderAfter event and a fullScreenModeChangeAfter event with fullScreen
\* true, in whichever order.
C23_TransitionAfterBothEvents ==
    wysiwyg.transition =>
        \/ wysiwyg.received = <<"renderAfter", "fullScreen">>
        \/ wysiwyg.received = <<"fullScreen", "renderAfter">>

\* transition became true after the full screen event came before the
\* render event
C23_Witness ==
    /\ last.op = "callback"
    /\ ~last.before.transition
    /\ wysiwyg.transition
    /\ wysiwyg.received = <<"fullScreen", "renderAfter">>

\* C24: in button mode, once no callback is pending, the element matches the
\* latest fullScreenModeChangeAfter event: shown and not animating out after
\* fullScreen true, hidden and not animated in after fullScreen false.
C24_SettlesToLatestEvent ==
    (wysiwyg.pagebuilder_button /\ wysiwyg.pending = <<>>) =>
        /\ wysiwyg.lastFullScreen = <<TRUE>> =>
               wysiwyg.visiblePageBuilder /\ ~wysiwyg.transitionOut
        /\ wysiwyg.lastFullScreen = <<FALSE>> =>
               ~wysiwyg.visiblePageBuilder /\ ~wysiwyg.transition

====
